---- MODULE Spec2Model ----
(***************************************************************************)
(* Task queue, Orchestrator and template validation of spawnee.            *)
(*                                                                         *)
(* The Orchestrator runs on the Node.js event loop: every handler below is *)
(* one synchronous run of code between two suspension points (an awaited   *)
(* job-creation request, a poll response, a timer, a prompt).  A call of   *)
(* trySpawnAgents that reaches `await client.createAgent` is kept as an    *)
(* in-flight dispatch: the slice of ready tasks it took, whose head is the *)
(* task whose creation request is pending.  Without a state store         *)
(* saveState returns at once; with one (StoreSpec) its writeFile and the   *)
(* unlink of clear are operations in flight, which are taken to succeed.   *)
(*                                                                         *)
(* Spec is the Orchestrator under every answer of its environment.         *)
(* LiveSpec is the run in which every request is answered well, AbortSpec  *)
(* the pipeline over task sets with a breakpoint; both state the fairness  *)
(* under which the runs are expected to end.                               *)
(***************************************************************************)
EXTENDS Integers, Sequences, FiniteSets, Bags, TLC

\* ---------------------------------------------------------------- bounds
\* cap on the number of createAgent requests issued in one run
MaxRequests == 5
\* largest task set and longest dependsOn list of the templates given to the
\* parser
MaxTemplateTasks == 3
MaxDeps == 2
\* most validation gates of a template and largest max_qa_cycles
MaxGates == 2
MaxQaCycles == 3
\* most calls of markRunning for one task of a queue that is driven directly
MaxAttempts == 2

VARIABLES
    cfg,            \* the parsed template and config: tasks, maxConcurrent
    pc,             \* position of the run command
    status,         \* TaskQueue.tasks: task -> status
    attempts,       \* TaskQueue.tasks: task -> attempts
    error,          \* TaskQueue.tasks: task -> last error
    result,         \* TaskQueue.tasks: task -> result recorded
    completed,      \* TaskQueue.completed
    activeAgents,   \* Orchestrator.activeAgents: agentId -> taskId
    timeouts,       \* Orchestrator.timeouts: agentIds with an armed timer
    pollIntervals,  \* CursorClient.pollIntervals: agentIds being polled
    isRunning,      \* Orchestrator.isRunning
    dispatches,     \* trySpawnAgents calls suspended in createAgent
    prompts,        \* handleBreakpoint calls suspended in promptBreakpoint
    stops,          \* stop() calls suspended in stopAgent
    requests,       \* createAgent requests issued so far
    nextAgent,      \* agents created so far (the last agent id)
    pipe,           \* PipelineController.run: its template and its locals
    store,          \* the state store: the snapshot file and its operations
    hist            \* history of the run, read by the properties only

vars == <<cfg, pc, status, attempts, error, result, completed, activeAgents,
          timeouts, pollIntervals, isRunning, dispatches, prompts, stops,
          requests, nextAgent, pipe, store, hist>>

\* ---------------------------------------------------------------- helpers
Min(a, b) == IF a < b THEN a ELSE b

Range(f) == {f[x] : x \in DOMAIN f}

Take(seq, k) == SubSeq(seq, 1, Min(k, Len(seq)))

MapPut(f, k, v) == [x \in DOMAIN f \cup {k} |-> IF x = k THEN v ELSE f[x]]

MapDel(f, k) == [x \in DOMAIN f \ {k} |-> f[x]]

NoMap == [x \in {} |-> 0]

\* ------------------------------------------------------------- task sets
Task(deps, prio, retries, bp, done) ==
    [dependsOn |-> deps, priority |-> prio, retries |-> retries,
     breakpoint |-> bp, complete |-> done]

Plain(deps, retries) == Task(deps, 0, retries, FALSE, FALSE)

\* three independent tasks, the second of higher priority, two slots
Indep3 == [tasks |-> <<Plain(<<>>, 1), Task(<<>>, 1, 1, FALSE, FALSE),
                       Plain(<<>>, 1)>>,
           maxConcurrent |-> 2]

\* B depends on A, A.retries = 2
Chain2 == [tasks |-> <<Plain(<<>>, 2), Plain(<<1>>, 1)>>, maxConcurrent |-> 1]

\* B depends on A, A.retries = 3
Chain3 == [tasks |-> <<Plain(<<>>, 3), Plain(<<1>>, 2)>>, maxConcurrent |-> 1]

\* C has a breakpoint, D depends on C, E is independent
Break3 == [tasks |-> <<Task(<<>>, 0, 1, TRUE, FALSE), Plain(<<1>>, 1),
                       Plain(<<>>, 1)>>,
           maxConcurrent |-> 2]

\* a breakpoint task without dependents, next to an independent task
Break2 == [tasks |-> <<Task(<<>>, 0, 1, TRUE, FALSE), Plain(<<>>, 1)>>,
           maxConcurrent |-> 2]

\* a task listed before the task it depends on, which is flagged complete
Seeded == [tasks |-> <<Plain(<<2>>, 1), Task(<<>>, 0, 1, FALSE, TRUE)>>,
           maxConcurrent |-> 1]

\* C has a breakpoint and depends on A, D depends on C
BreakChain == [tasks |-> <<Plain(<<>>, 1), Task(<<1>>, 0, 1, TRUE, FALSE),
                           Plain(<<2>>, 1)>>,
               maxConcurrent |-> 2]

\* C depends on A and on B, one slot
Join3 == [tasks |-> <<Plain(<<>>, 1), Plain(<<>>, 1), Plain(<<1, 2>>, 1)>>,
          maxConcurrent |-> 1]

Scenarios ==
    {Indep3, Chain2, Chain3, Break3, Break2, BreakChain, Seeded, Join3}

NTasks == Len(cfg.tasks)

TaskIds == 1..NTasks

Deps(t) == Range(cfg.tasks[t].dependsOn)

\* ---------------------------------------------------- template parsing
RECURSIVE Dfs(_, _, _)
RECURSIVE DfsDeps(_, _, _, _)
\* dfs(taskId) of hasCycle; st carries the visited set and the recursion
\* stack, which the closure shares between the calls
Dfs(tasks, id, st) ==
    LET st1 == [st EXCEPT !.visited = @ \cup {id}, !.stack = @ \cup {id}]
    IN IF id \notin DOMAIN tasks THEN st1
       ELSE DfsDeps(tasks, id, 1, st1)

RECURSIVE DfsDeps_NoStackCheck(_, _, _, _)
\* DfsDeps without the test of the recursion stack
DfsDeps_NoStackCheck(tasks, id, k, st) ==
    IF k > Len(tasks[id].dependsOn)
    THEN [st EXCEPT !.stack = @ \ {id}]
    ELSE LET depId == tasks[id].dependsOn[k]
             r == IF depId \notin st.visited THEN Dfs(tasks, depId, st)
                  ELSE st
         IN IF r.found THEN r
            ELSE DfsDeps_NoStackCheck(tasks, id, k + 1, r)

RECURSIVE DfsDeps_VisitedCheck(_, _, _, _)
\* DfsDeps taking a dependency that was visited before for a cycle
DfsDeps_VisitedCheck(tasks, id, k, st) ==
    IF k > Len(tasks[id].dependsOn)
    THEN [st EXCEPT !.stack = @ \ {id}]
    ELSE LET depId == tasks[id].dependsOn[k]
         IN IF depId \in st.visited THEN [st EXCEPT !.found = TRUE]
            ELSE LET r == Dfs(tasks, depId, st)
                 IN IF r.found THEN r
                    ELSE DfsDeps_VisitedCheck(tasks, id, k + 1, r)

\* the loop over task.dependsOn, from position k
DfsDeps(tasks, id, k, st) ==
    IF k > Len(tasks[id].dependsOn)
    THEN [st EXCEPT !.stack = @ \ {id}]
    ELSE LET depId == tasks[id].dependsOn[k]
             r == IF depId \notin st.visited THEN Dfs(tasks, depId, st)
                  ELSE st
         IN IF r.found THEN r
            ELSE IF depId \in r.stack THEN [r EXCEPT !.found = TRUE]
            ELSE DfsDeps(tasks, id, k + 1, r)

RECURSIVE HasCycleFrom(_, _, _)
HasCycleFrom(tasks, i, st) ==
    IF i > Len(tasks) THEN FALSE
    ELSE IF i \in st.visited THEN HasCycleFrom(tasks, i + 1, st)
    ELSE LET r == Dfs(tasks, i, st)
         IN IF r.found THEN TRUE ELSE HasCycleFrom(tasks, i + 1, r)

HasCycle(tasks) ==
    HasCycleFrom(tasks, 1, [visited |-> {}, stack |-> {}, found |-> FALSE])

\* validateDependencies throws when it has collected an error
ValidateDependenciesThrows(tasks) ==
    \/ \E t \in DOMAIN tasks :
          \E k \in DOMAIN tasks[t].dependsOn :
              tasks[t].dependsOn[k] \notin DOMAIN tasks
    \/ HasCycle(tasks)

RECURSIVE Ascending(_)
Ascending(S) ==
    IF S = {} THEN <<>>
    ELSE LET m == CHOOSE x \in S : \A y \in S : x <= y
         IN <<m>> \o Ascending(S \ {m})

Reverse(seq) == [k \in DOMAIN seq |-> seq[Len(seq) + 1 - k]]

\* dependsOn lists over the ids 1..n of the tasks and 0, the id of no task:
\* every set of at most MaxDeps ids, listed upwards and downwards
DepLists(n) ==
    UNION {{Ascending(S), Reverse(Ascending(S))} :
             S \in {D \in SUBSET (0..n) : Cardinality(D) <= MaxDeps}}

\* the task sets a template file can hold (ids are the positions)
Templates(n) == [1..n -> {Plain(deps, 1) : deps \in DepLists(n)}]

\* ------------------------------------------------------ the state record
\* The handlers are written as operators on a record of the mutable state,
\* so that nested synchronous calls (emit -> listener) compose.
St == [status |-> status, attempts |-> attempts, error |-> error,
       result |-> result, completed |-> completed,
       activeAgents |-> activeAgents, timeouts |-> timeouts,
       pollIntervals |-> pollIntervals,
       isRunning |-> isRunning, dispatches |-> dispatches,
       prompts |-> prompts, stops |-> stops, requests |-> requests,
       nextAgent |-> nextAgent, store |-> store, hist |-> hist]

Apply(s) ==
    /\ status' = s.status
    /\ attempts' = s.attempts
    /\ error' = s.error
    /\ result' = s.result
    /\ completed' = s.completed
    /\ activeAgents' = s.activeAgents
    /\ timeouts' = s.timeouts
    /\ pollIntervals' = s.pollIntervals
    /\ isRunning' = s.isRunning
    /\ dispatches' = s.dispatches
    /\ prompts' = s.prompts
    /\ stops' = s.stops
    /\ requests' = s.requests
    /\ nextAgent' = s.nextAgent
    /\ store' = s.store
    /\ hist' = s.hist

\* ------------------------------------------------------- the state store
\* options.stateStore is undefined unless the run command has --persist.
\* file tells whether the snapshot file exists; ops holds the writeFile and
\* unlink operations that have been started and have not taken effect yet.
\* An operation started by an awaited call carries what the caller does when
\* it resumes.
NoStore == [enabled |-> FALSE, file |-> FALSE, ops |-> EmptyBag]

NoThen == [k |-> "none", rest |-> <<>>]

\* FileStateStore.save up to `await writeFile`; event tells that the call
\* comes from the listener of a task event
StoreSave(s, event, then) ==
    [s EXCEPT !.store.ops = @ (+) SetToBag({[kind |-> "write",
                                             event |-> event,
                                             then |-> then]})]

\* saveState() called by a listener, which does not await it
SaveState(s) ==
    IF ~s.store.enabled THEN s ELSE StoreSave(s, TRUE, NoThen)

\* this.stateStore?.clear() up to `await unlink`
ClearState(s) ==
    IF ~s.store.enabled THEN s
    ELSE [s EXCEPT !.store.ops = @ (+) SetToBag({[kind |-> "unlink",
                                                  event |-> FALSE,
                                                  then |-> NoThen]})]

\* ------------------------------------------------------------- TaskQueue
RECURSIVE InsertByPriority_Unstable(_, _)
\* InsertByPriority putting t before the elements of its own priority
InsertByPriority_Unstable(seq, t) ==
    IF seq = <<>> THEN <<t>>
    ELSE IF cfg.tasks[Head(seq)].priority > cfg.tasks[t].priority
         THEN <<Head(seq)>> \o InsertByPriority_Unstable(Tail(seq), t)
         ELSE <<t>> \o seq

RECURSIVE InsertByPriority(_, _)
\* Array.prototype.sort((a, b) => b.priority - a.priority) is stable: t goes
\* behind every element whose priority is not lower.
InsertByPriority(seq, t) ==
    IF seq = <<>> THEN <<t>>
    ELSE IF cfg.tasks[Head(seq)].priority >= cfg.tasks[t].priority
         THEN <<Head(seq)>> \o InsertByPriority(Tail(seq), t)
         ELSE <<t>> \o seq

RECURSIVE SortReady(_, _, _)
SortReady(s, i, acc) ==
    IF i > Len(s.status) THEN acc
    ELSE SortReady(s, i + 1,
                   IF s.status[i] = "ready" THEN InsertByPriority(acc, i)
                   ELSE acc)

GetReadyTasks(s) == SortReady(s, 1, <<>>)

\* history: the slice taken by a dispatch leaves ready a task of higher
\* priority than one of its own
PrioritySkipped(s, slice) ==
    \E t \in Range(slice), u \in DOMAIN s.status :
        /\ s.status[u] = "ready"
        /\ u \notin Range(slice)
        /\ cfg.tasks[u].priority > cfg.tasks[t].priority

\* TrySpawnAgents taking every ready task instead of availableSlots many
TrySpawnAgents_NoSlice(s) ==
    IF ~s.isRunning THEN s
    ELSE LET availableSlots ==
                 cfg.maxConcurrent - Cardinality(DOMAIN s.activeAgents)
         IN IF availableSlots <= 0 THEN s
            ELSE LET readyTasks == GetReadyTasks(s)
                 IN IF readyTasks = <<>> THEN s
                    ELSE [s EXCEPT
                            !.dispatches = @ (+) SetToBag({readyTasks}),
                            !.requests = @ + 1,
                            !.hist.prioritySkipped =
                                @ \/ PrioritySkipped(s, readyTasks)]

\* the synchronous part of trySpawnAgents, up to `await client.createAgent`
TrySpawnAgents(s) ==
    IF ~s.isRunning THEN s
    ELSE LET availableSlots ==
                 cfg.maxConcurrent - Cardinality(DOMAIN s.activeAgents)
         IN IF availableSlots <= 0 THEN s
            ELSE LET readyTasks == Take(GetReadyTasks(s), availableSlots)
                 IN IF readyTasks = <<>> THEN s
                    ELSE [s EXCEPT
                            !.dispatches = @ (+) SetToBag({readyTasks}),
                            !.requests = @ + 1,
                            !.hist.prioritySkipped =
                                @ \/ PrioritySkipped(s, readyTasks)]

RECURSIVE UpdateReadyFrom_NoDepCheck(_, _)
\* UpdateReadyFrom without the test of the dependencies
UpdateReadyFrom_NoDepCheck(s, i) ==
    IF i > Len(s.status) THEN s
    ELSE IF s.status[i] = "pending"
         THEN UpdateReadyFrom_NoDepCheck(
                  TrySpawnAgents([s EXCEPT !.status[i] = "ready"]), i + 1)
         ELSE UpdateReadyFrom_NoDepCheck(s, i + 1)

RECURSIVE UpdateReadyFrom(_, _)
\* emit('taskReady') runs the Orchestrator's listener before the loop goes on
UpdateReadyFrom(s, i) ==
    IF i > Len(s.status) THEN s
    ELSE IF s.status[i] = "pending" /\ Deps(i) \subseteq s.completed
         THEN UpdateReadyFrom(
                  TrySpawnAgents([s EXCEPT !.status[i] = "ready"]), i + 1)
         ELSE UpdateReadyFrom(s, i + 1)

UpdateReadyTasks(s) == UpdateReadyFrom(s, 1)

\* the Orchestrator's listener of 'allComplete'
OnAllComplete(s) ==
    ClearState([s EXCEPT !.isRunning = FALSE,
                         !.pollIntervals = {},
                         !.timeouts = {},
                         !.hist.completeCount = Min(@ + 1, 2),
                         !.hist.completeBusy = @ \/ s.activeAgents # NoMap,
                         !.hist.completeStatus = s.status])

\* CheckAllComplete without the test for paused tasks
CheckAllComplete_IgnorePaused(s) ==
    LET allDone == \A t \in DOMAIN s.status :
            s.status[t] \in {"completed", "failed", "paused_at_breakpoint"}
    IN IF allDone THEN OnAllComplete(s) ELSE s

CheckAllComplete(s) ==
    LET allDone == \A t \in DOMAIN s.status :
            s.status[t] \in {"completed", "failed", "paused_at_breakpoint"}
        anyPaused == \E t \in DOMAIN s.status :
            s.status[t] = "paused_at_breakpoint"
    IN IF allDone /\ ~anyPaused THEN OnAllComplete(s) ELSE s

\* `const task = this.tasks.get(id); if (!task) return;`
Unknown(s, t) == t \notin DOMAIN s.status

MarkRunning(s, t) ==
    IF Unknown(s, t) THEN s
    ELSE [s EXCEPT !.status[t] = "running", !.attempts[t] = @ + 1]

\* MarkCompleted adding an id that is not in the task set to the completed set
MarkCompleted_NoGuard(s, t, checkComplete) ==
    LET s1 == IF Unknown(s, t) THEN [s EXCEPT !.completed = @ \cup {t}]
              ELSE [s EXCEPT !.status[t] = "completed", !.result[t] = TRUE,
                             !.completed = @ \cup {t}]
        s2 == UpdateReadyTasks(SaveState(s1))
    IN IF checkComplete THEN CheckAllComplete(s2) ELSE s2

\* MarkCompleted without the recomputation of the ready tasks
MarkCompleted_NoReadyUpdate(s, t, checkComplete) ==
    IF Unknown(s, t) THEN s
    ELSE LET s1 == SaveState([s EXCEPT !.status[t] = "completed",
                                       !.result[t] = TRUE,
                                       !.completed = @ \cup {t}])
         IN IF checkComplete THEN CheckAllComplete(s1) ELSE s1

MarkCompleted(s, t, checkComplete) ==
    IF Unknown(s, t) THEN s
    ELSE LET s1 == [s EXCEPT !.status[t] = "completed", !.result[t] = TRUE,
                             !.completed = @ \cup {t}]
             s2 == UpdateReadyTasks(SaveState(s1))
         IN IF checkComplete THEN CheckAllComplete(s2) ELSE s2

\* task.retries ?? maxRetries: parseTemplate and generateRetryTasks always set
\* retries, so the default of the parameter is never used
Budget(t) == cfg.tasks[t].retries

MarkFailed(s, t, err) ==
    IF Unknown(s, t) THEN s
    ELSE LET s1 == [s EXCEPT !.error[t] = err]
         IN IF s1.attempts[t] < Budget(t)
            THEN [s1 EXCEPT !.status[t] = "ready"]
            ELSE CheckAllComplete(
                     SaveState([s1 EXCEPT !.status[t] = "failed"]))

MarkPausedAtBreakpoint(s, t) ==
    IF Unknown(s, t) THEN s
    ELSE [s EXCEPT !.status[t] = "paused_at_breakpoint", !.result[t] = TRUE]

\* ResumeFromBreakpoint without the recomputation of the ready tasks
ResumeFromBreakpoint_NoUpdate(s, t) ==
    IF Unknown(s, t) \/ s.status[t] # "paused_at_breakpoint" THEN s
    ELSE CheckAllComplete(
             SaveState([s EXCEPT !.status[t] = "completed",
                                 !.completed = @ \cup {t}]))

ResumeFromBreakpoint(s, t) ==
    IF Unknown(s, t) \/ s.status[t] # "paused_at_breakpoint" THEN s
    ELSE CheckAllComplete(UpdateReadyTasks(SaveState(
             [s EXCEPT !.status[t] = "completed",
                       !.completed = @ \cup {t}])))

RECURSIVE AddTasksFrom_IgnoreComplete(_, _)
\* AddTasksFrom without the test of the complete flag
AddTasksFrom_IgnoreComplete(s, i) ==
    IF i > NTasks THEN UpdateReadyTasks(s)
    ELSE AddTasksFrom_IgnoreComplete(
             [s EXCEPT !.status = Append(@, "pending"),
                       !.attempts = Append(@, 0),
                       !.error = Append(@, "none"),
                       !.result = Append(@, FALSE)],
             i + 1)

RECURSIVE AddTasksFrom(_, _)
AddTasksFrom(s, i) ==
    IF i > NTasks THEN UpdateReadyTasks(s)
    ELSE LET s1 == [s EXCEPT !.status = Append(@, "pending"),
                             !.attempts = Append(@, 0),
                             !.error = Append(@, "none"),
                             !.result = Append(@, FALSE)]
         IN AddTasksFrom(IF cfg.tasks[i].complete
                         THEN MarkCompleted(s1, i, FALSE)
                         ELSE s1,
                         i + 1)

AddTasks(s) == AddTasksFrom(s, 1)

\* ---------------------------------------------------------- Orchestrator
ClearTimeout(s, a) ==
    IF a \notin s.timeouts THEN s ELSE [s EXCEPT !.timeouts = @ \ {a}]

StopMonitoring(s, a) == [s EXCEPT !.pollIntervals = @ \ {a}]

\* HandleAgentComplete leaving the job in the active-agent map
HandleAgentComplete_KeepsEntry(s, a) ==
    IF a \notin DOMAIN s.activeAgents THEN s
    ELSE LET t == s.activeAgents[a]
             s1 == ClearTimeout(
                     [s EXCEPT !.hist.finishedOk = @ \cup {t},
                               !.hist.processed = @ \cup {a},
                               !.hist.anyTerminal = TRUE], a)
         IN TrySpawnAgents(
              IF cfg.tasks[t].breakpoint
              THEN [MarkPausedAtBreakpoint(s1, t) EXCEPT !.prompts[t] = @ + 1]
              ELSE MarkCompleted(s1, t, TRUE))

HandleAgentComplete(s, a) ==
    IF a \notin DOMAIN s.activeAgents THEN s
    ELSE LET t == s.activeAgents[a]
             s1 == ClearTimeout(
                     [s EXCEPT !.activeAgents = MapDel(@, a),
                               !.hist.finishedOk = @ \cup {t},
                               !.hist.processed = @ \cup {a},
                               !.hist.anyTerminal = TRUE], a)
         IN TrySpawnAgents(
              IF cfg.tasks[t].breakpoint
              THEN [MarkPausedAtBreakpoint(s1, t) EXCEPT !.prompts[t] = @ + 1]
              ELSE MarkCompleted(s1, t, TRUE))

HandleAgentFailed(s, a, err) ==
    IF a \notin DOMAIN s.activeAgents THEN s
    ELSE LET t == s.activeAgents[a]
             s1 == StopMonitoring(ClearTimeout(
                     [s EXCEPT !.activeAgents = MapDel(@, a),
                               !.hist.execFails[t] = @ + 1,
                               !.hist.processed = @ \cup {a},
                               !.hist.anyTerminal = TRUE], a), a)
         IN TrySpawnAgents(MarkFailed(s1, t, err))

\* SpawnAgentCreated arming no timer
SpawnAgentCreated_NoTimer(s, t) ==
    LET a == s.nextAgent + 1
        s1 == [s EXCEPT !.nextAgent = a,
                        !.activeAgents = MapPut(@, a, t)]
        s2 == MarkRunning(s1, t)
    IN [s2 EXCEPT !.pollIntervals = @ \cup {a}]

\* spawnAgent after createAgent has resolved
SpawnAgentCreated(s, t) ==
    LET a == s.nextAgent + 1
        s1 == [s EXCEPT !.nextAgent = a,
                        !.activeAgents = MapPut(@, a, t)]
        s2 == MarkRunning(s1, t)
    IN [s2 EXCEPT !.pollIntervals = @ \cup {a},
                  !.timeouts = @ \cup {a}]

\* the catch block of trySpawnAgents
SpawnAgentFailed(s, t) ==
    MarkFailed([s EXCEPT !.hist.createFails[t] = @ + 1], t, "create")

\* the for loop of trySpawnAgents goes on with the rest of its slice
ContinueDispatch(s, rest) ==
    IF rest = <<>> THEN s
    ELSE [s EXCEPT !.dispatches = @ (+) SetToBag({rest}),
                   !.requests = @ + 1]

\* what the caller of an awaited saveState() does when it resumes: start()
\* calls trySpawnAgents, the loop of trySpawnAgents goes to its next task
Resumed(s, then) ==
    IF then.k = "start" THEN TrySpawnAgents(s)
    ELSE IF then.k = "loop" THEN ContinueDispatch(s, then.rest)
    ELSE s

\* `await this.saveState()`: without a state store the caller goes on at once
AwaitSaveState(s, then) ==
    IF ~s.store.enabled THEN Resumed(s, then) ELSE StoreSave(s, FALSE, then)

\* The end of stop(), behind the loop: emit('stopped').  call.unasked holds
\* the agents of the map at the call for which no stopAgent was requested;
\* the ones that have left the map since have ended by themselves.
StopReturn(s, call) ==
    [s EXCEPT !.hist.stopReturned = TRUE,
              !.hist.stopLeft = [polling |-> s.pollIntervals # {},
                                 timers |-> s.timeouts # {},
                                 unasked |-> call.unasked \cap
                                     DOMAIN s.activeAgents # {}]]

\* The loop of stop() over activeAgents.keys(), behind the key `last`.  The
\* iterator of a Map is live: it visits the keys in insertion order, the
\* ones added since the loop began included, and skips the deleted ones.
\* Agent ids are inserted in ascending order.
StopLoop(s, call, last) ==
    LET later == {a \in DOMAIN s.activeAgents : a > last}
    IN IF later = {} THEN StopReturn(s, call)
       ELSE LET a == CHOOSE x \in later : \A y \in later : x <= y
            IN [s EXCEPT !.stops = @ (+) SetToBag({
                   [cur |-> a, unasked |-> call.unasked \ {a}]})]

\* StopOrchestrator failing the tasks that are running
StopOrchestrator_FailRunning(s) ==
    StopLoop([s EXCEPT !.isRunning = FALSE, !.pollIntervals = {},
                       !.timeouts = {}, !.hist.stopped = TRUE,
                       !.status = [t \in DOMAIN s.status |->
                                      IF s.status[t] = "running" THEN "failed"
                                      ELSE s.status[t]]],
             [unasked |-> DOMAIN s.activeAgents], 0)

\* stop() up to its first `await client.stopAgent`
StopOrchestrator(s) ==
    StopLoop([s EXCEPT !.isRunning = FALSE, !.pollIntervals = {},
                       !.timeouts = {}, !.hist.stopped = TRUE],
             [unasked |-> DOMAIN s.activeAgents], 0)

\* ---------------------------------------------------------------- actions
Within(s) == s.requests <= MaxRequests

NoHist == [completeCount |-> 0, completeStatus |-> <<>>, finishedOk |-> {},
           anyTerminal |-> FALSE, execFails |-> <<>>, createFails |-> <<>>,
           stopped |-> FALSE, aborted |-> {}, stopReturned |-> FALSE,
           prioritySkipped |-> FALSE, timerStopSent |-> FALSE,
           unknownId |-> FALSE, cleared |-> FALSE, lateSave |-> FALSE,
           completeBusy |-> FALSE, processed |-> {}, lateEvent |-> FALSE,
           stopLeft |-> [polling |-> FALSE, timers |-> FALSE,
                        unasked |-> FALSE]]

Fresh ==
    /\ status = <<>>
    /\ attempts = <<>>
    /\ error = <<>>
    /\ result = <<>>
    /\ completed = {}
    /\ activeAgents = NoMap
    /\ timeouts = {}
    /\ pollIntervals = {}
    /\ isRunning = FALSE
    /\ dispatches = EmptyBag
    /\ prompts = <<>>
    /\ stops = EmptyBag
    /\ requests = 0
    /\ nextAgent = 0
    /\ hist = NoHist

\* run() has not been called
NoPipe == [pos |-> "idle", template |-> [gates |-> 0, maxCycles |-> 1,
                                         retries |-> 1],
           cycle |-> 0, cycles |-> <<>>, execs |-> 0, merges |-> 0,
           issues |-> <<>>, retryTasks |-> <<>>, escalations |-> <<>>,
           taskFailed |-> FALSE, success |-> FALSE,
           generateArtifact |-> FALSE, artifacts |-> <<>>]

\* an Orchestrator constructed for a task set that the parser has accepted
Init ==
    /\ cfg \in Scenarios
    /\ pc = "constructed"
    /\ pipe = NoPipe
    /\ store = NoStore
    /\ Fresh

\* the run command started on a template file
InitRun ==
    /\ \E n \in 1..MaxTemplateTasks : \E tasks \in Templates(n) :
           cfg = [tasks |-> tasks, maxConcurrent |-> 2]
    /\ pc = "cli"
    /\ pipe = NoPipe
    /\ store = NoStore
    /\ Fresh

\* the run command: parseTemplate, process.exit(1) when it throws
ParseTemplate ==
    /\ pc = "cli"
    /\ pc' = IF ValidateDependenciesThrows(cfg.tasks) THEN "exit"
             ELSE "parsed"
    /\ UNCHANGED <<cfg, status, attempts, error, result, completed,
                   activeAgents, timeouts, pollIntervals, isRunning,
                   dispatches, prompts, stops, requests, nextAgent, pipe,
                   store, hist>>

\* the run command: new Orchestrator(...)
Construct ==
    /\ pc = "parsed"
    /\ pc' = "constructed"
    /\ UNCHANGED <<cfg, status, attempts, error, result, completed,
                   activeAgents, timeouts, pollIntervals, isRunning,
                   dispatches, prompts, stops, requests, nextAgent, pipe,
                   store, hist>>

LoadTasks ==
    /\ pc = "constructed"
    /\ pc' = "loaded"
    /\ Apply(AddTasks([St EXCEPT
                         !.prompts = [t \in TaskIds |-> 0],
                         !.hist.execFails = [t \in TaskIds |-> 0],
                         !.hist.createFails = [t \in TaskIds |-> 0]]))
    /\ UNCHANGED <<cfg, pipe>>

Start ==
    /\ pc = "loaded"
    /\ pc' = "started"
    /\ Apply(AwaitSaveState([St EXCEPT !.isRunning = TRUE],
                            [k |-> "start", rest |-> <<>>]))
    /\ UNCHANGED <<cfg, pipe>>

CreateResponse ==
    /\ \E d \in BagToSet(dispatches), ok \in BOOLEAN :
          LET s0 == [St EXCEPT !.dispatches = @ (-) SetToBag({d})]
              s2 == IF ok
                    THEN AwaitSaveState(SpawnAgentCreated(s0, Head(d)),
                                        [k |-> "loop", rest |-> Tail(d)])
                    ELSE ContinueDispatch(SpawnAgentFailed(s0, Head(d)),
                                          Tail(d))
          IN Within(s2) /\ Apply(s2)
    /\ UNCHANGED <<cfg, pc, pipe>>

PollStatuses ==
    {"CREATING", "RUNNING", "FINISHED", "FAILED", "STOPPED", "EXPIRED"}

FinishedStatuses == {"FINISHED", "FAILED", "STOPPED", "EXPIRED"}

\* MappedStatus taking EXPIRED for a completion
MappedStatus_ExpiredCompleted(st) ==
    IF st \in {"FINISHED", "EXPIRED"} THEN "completed"
    ELSE IF st = "FAILED" THEN "failed"
    ELSE "cancelled"

\* FINISHED -> completed, FAILED -> failed, STOPPED/EXPIRED -> cancelled
MappedStatus(st) ==
    IF st = "FINISHED" THEN "completed"
    ELSE IF st = "FAILED" THEN "failed"
    ELSE "cancelled"

\* poll() behind `await this.getAgent(agentId)`, with the Orchestrator's
\* listeners of 'completed', 'failed' and 'cancelled'
PollAnswer(s, a, st) ==
    IF st \notin FinishedStatuses THEN s
    ELSE LET s0 == StopMonitoring(s, a)
             mappedStatus == MappedStatus(st)
         IN IF mappedStatus = "completed" THEN HandleAgentComplete(s0, a)
            ELSE IF mappedStatus = "failed"
            THEN HandleAgentFailed(s0, a, "Agent failed")
            ELSE HandleAgentFailed(s0, a, "Agent was stopped")

\* HandleTimeout without the cancellation request
HandleTimeout_NoStopRequest(s, a) ==
    LET s0 == [s EXCEPT !.timeouts = @ \ {a}]
    IN IF a \notin DOMAIN s0.activeAgents THEN s0
       ELSE HandleAgentFailed(s0, a, "Timeout exceeded")

\* The setTimeout callback of spawnAgent for job a.  The stopAgent request
\* is sent and its outcome dropped (.catch(() => {})).
HandleTimeout(s, a) ==
    LET s0 == [s EXCEPT !.timeouts = @ \ {a}]
    IN IF a \notin DOMAIN s0.activeAgents THEN s0
       ELSE HandleAgentFailed(
                [s0 EXCEPT !.hist.timerStopSent = TRUE], a,
                "Timeout exceeded")

\* The continuation of poll() after `await this.getAgent(agentId)`.  A poll
\* is started when the job is created and on every interval tick, and its
\* answer can arrive after the interval was cleared, so an answer may be
\* outstanding for every job created so far.  For a job that is neither
\* polled nor in activeAgents the answer changes nothing.
PollResponse ==
    /\ \E a \in pollIntervals \cup DOMAIN activeAgents, st \in PollStatuses :
          LET s1 == PollAnswer(St, a, st)
          IN Within(s1) /\ Apply(s1)
    /\ UNCHANGED <<cfg, pc, pipe>>

\* the setTimeout callback of spawnAgent
TimerExpire ==
    /\ \E a \in timeouts :
          LET s1 == HandleTimeout(St, a)
          IN Within(s1) /\ Apply(s1)
    /\ UNCHANGED <<cfg, pc, pipe>>

\* the continuation of handleBreakpoint after `await promptBreakpoint(task)`
BreakpointDecision ==
    /\ \E t \in DOMAIN prompts, action \in {"continue", "abort"} :
          /\ prompts[t] > 0
          /\ LET s0 == [St EXCEPT !.prompts[t] = @ - 1]
                 s1 == IF action = "continue"
                       THEN TrySpawnAgents(ResumeFromBreakpoint(s0, t))
                       ELSE StopOrchestrator(
                                [s0 EXCEPT !.hist.aborted = @ \cup {t}])
             IN Within(s1) /\ Apply(s1)
    /\ UNCHANGED <<cfg, pc, pipe>>

\* stop() called from outside (the SIGINT handler of the run command)
Stop ==
    /\ pc = "started"
    /\ ~hist.stopped
    /\ Apply(StopOrchestrator(St))
    /\ UNCHANGED <<cfg, pc, pipe>>

\* The continuation of stop() after `await client.stopAgent(agentId)`.  A
\* request that has thrown is caught and ignored: the loop goes on in the
\* same way whether the request succeeded or not.
StopAgentResponse ==
    /\ \E call \in BagToSet(stops) :
          Apply(StopLoop([St EXCEPT !.stops = @ (-) SetToBag({call})],
                         call, call.cur))
    /\ UNCHANGED <<cfg, pc, pipe>>

Next ==
    \/ LoadTasks
    \/ Start
    \/ CreateResponse
    \/ PollResponse
    \/ TimerExpire
    \/ BreakpointDecision
    \/ Stop
    \/ StopAgentResponse

Spec == Init /\ [][Next]_vars

\* the run command up to the first dispatch
NextRun ==
    \/ ParseTemplate
    \/ Construct
    \/ LoadTasks
    \/ Start

RunSpec == InitRun /\ [][NextRun]_vars

\* ------------------------------------------------- late events of a job
\* A terminal poll answer or a timer callback for a job whose outcome has
\* been handled: the answer of a poll that was on its way when another poll
\* of the same job reported, or a callback that runs behind the handler.
LateEvent ==
    /\ \E a \in hist.processed, st \in FinishedStatuses \cup {"timer"} :
          LET s1 == IF st = "timer" THEN HandleTimeout(St, a)
                    ELSE PollAnswer(St, a, st)
          IN /\ Within(s1)
             /\ Apply([s1 EXCEPT !.hist.lateEvent = TRUE])
    /\ UNCHANGED <<cfg, pc, pipe>>

InitLate ==
    /\ cfg \in {Chain2, Break2}
    /\ pc = "constructed"
    /\ pipe = NoPipe
    /\ store = NoStore
    /\ Fresh

NextLate ==
    \/ LoadTasks
    \/ Start
    \/ CreateResponse
    \/ PollResponse
    \/ TimerExpire
    \/ BreakpointDecision
    \/ Stop
    \/ StopAgentResponse
    \/ LateEvent

LateSpec == InitLate /\ [][NextLate]_vars

\* ------------------------------------- the run whose jobs all finish
\* Every request is answered: createAgent resolves with a job, every job
\* reports a terminal status to a poll, and the reviewer answers every
\* breakpoint prompt with 'continue'.  Nobody stops the run, and the timers
\* (defaultTimeout) do not expire before the job has reported.

\* every task is flagged complete (a template written back by
\* --update-source after a run that finished every task)
AllSeeded == [tasks |-> <<Task(<<>>, 0, 1, FALSE, TRUE),
                          Task(<<1>>, 0, 1, FALSE, TRUE)>>,
              maxConcurrent |-> 1]

\* a breakpoint task and a task that depends on it, one slot
BreakThen == [tasks |-> <<Task(<<>>, 0, 1, TRUE, FALSE), Plain(<<1>>, 1)>>,
              maxConcurrent |-> 1]

LiveScenarios == {Chain2, Seeded, AllSeeded, BreakThen, Join3}

\* the continuation of spawnAgent after `await this.client.createAgent(...)`
\* has resolved
CreateSucceeds ==
    /\ \E d \in BagToSet(dispatches) :
          LET s0 == [St EXCEPT !.dispatches = @ (-) SetToBag({d})]
              s2 == AwaitSaveState(SpawnAgentCreated(s0, Head(d)),
                                   [k |-> "loop", rest |-> Tail(d)])
          IN Within(s2) /\ Apply(s2)
    /\ UNCHANGED <<cfg, pc, pipe>>

\* the continuation of poll() for a job that reports a terminal status
TerminalReport ==
    /\ \E a \in pollIntervals \cup DOMAIN activeAgents,
          st \in FinishedStatuses :
          LET s1 == PollAnswer(St, a, st)
          IN Within(s1) /\ Apply(s1)
    /\ UNCHANGED <<cfg, pc, pipe>>

\* the continuation of handleBreakpoint for the answer 'continue'
PromptContinue ==
    /\ \E t \in DOMAIN prompts :
          /\ prompts[t] > 0
          /\ LET s0 == [St EXCEPT !.prompts[t] = @ - 1]
                 s1 == TrySpawnAgents(ResumeFromBreakpoint(s0, t))
             IN Within(s1) /\ Apply(s1)
    /\ UNCHANGED <<cfg, pc, pipe>>

InitLive ==
    /\ cfg \in LiveScenarios
    /\ pc = "constructed"
    /\ pipe = NoPipe
    /\ store = NoStore
    /\ Fresh

NextLive ==
    \/ LoadTasks
    \/ Start
    \/ CreateSucceeds
    \/ TerminalReport
    \/ PromptContinue

\* loadTasks and start follow each other in the run command; the other
\* three are the answers that are taken to arrive
LiveSpec ==
    /\ InitLive
    /\ [][NextLive]_vars
    /\ WF_vars(LoadTasks)
    /\ WF_vars(Start)
    /\ WF_vars(CreateSucceeds)
    /\ WF_vars(TerminalReport)
    /\ WF_vars(PromptContinue)

\* ------------------------------------------- the run with --persist
\* An operation of the state store takes effect and its promise resolves.
\* writeFile and unlink run in the thread pool: the operations in flight take
\* effect in any order.  Every operation succeeds.
StoreOpDone ==
    /\ \E op \in BagToSet(store.ops) :
          LET s0 == [St EXCEPT
                       !.store.ops = @ (-) SetToBag({op}),
                       !.store.file = (op.kind = "write"),
                       !.hist.cleared = @ \/ op.kind = "unlink",
                       !.hist.lateSave =
                           @ \/ (op.kind = "write" /\ op.event
                                   /\ hist.cleared)]
              s1 == Resumed(s0, op.then)
          IN Within(s1) /\ Apply(s1)
    /\ UNCHANGED <<cfg, pc, pipe>>

\* an Orchestrator constructed with a FileStateStore; no snapshot exists
InitStore ==
    /\ cfg \in {[tasks |-> <<Plain(<<>>, 1)>>, maxConcurrent |-> 1], Break2}
    /\ pc = "constructed"
    /\ pipe = NoPipe
    /\ store = [NoStore EXCEPT !.enabled = TRUE]
    /\ Fresh

NextStore ==
    \/ LoadTasks
    \/ Start
    \/ CreateResponse
    \/ PollResponse
    \/ TimerExpire
    \/ BreakpointDecision
    \/ Stop
    \/ StopAgentResponse
    \/ StoreOpDone

StoreSpec == InitStore /\ [][NextStore]_vars

\* ------------------------------------------------ TaskQueue on its own
\* The public methods of a TaskQueue called directly, with the ids of its
\* tasks and with an id that it does not hold, while its owner is not
\* running.  markRunning is called at most MaxAttempts times for a task.
UnknownId == 0

QueueIds == TaskIds \cup {UnknownId}

InitQueue ==
    /\ cfg \in {Chain2, Break2}
    /\ pc = "constructed"
    /\ pipe = NoPipe
    /\ store = NoStore
    /\ Fresh

Called(s, id) == [s EXCEPT !.hist.unknownId = @ \/ id = UnknownId]

CallMarkRunning ==
    /\ pc = "loaded"
    /\ \E id \in QueueIds :
          /\ id \in TaskIds => attempts[id] < MaxAttempts
          /\ Apply(Called(MarkRunning(St, id), id))
    /\ UNCHANGED <<cfg, pc, pipe>>

CallMarkCompleted ==
    /\ pc = "loaded"
    /\ \E id \in QueueIds, checkComplete \in BOOLEAN :
          Apply(Called(MarkCompleted(St, id, checkComplete), id))
    /\ UNCHANGED <<cfg, pc, pipe>>

CallMarkFailed ==
    /\ pc = "loaded"
    /\ \E id \in QueueIds : Apply(Called(MarkFailed(St, id, "exec"), id))
    /\ UNCHANGED <<cfg, pc, pipe>>

CallMarkPausedAtBreakpoint ==
    /\ pc = "loaded"
    /\ \E id \in QueueIds : Apply(Called(MarkPausedAtBreakpoint(St, id), id))
    /\ UNCHANGED <<cfg, pc, pipe>>

CallResumeFromBreakpoint ==
    /\ pc = "loaded"
    /\ \E id \in QueueIds : Apply(Called(ResumeFromBreakpoint(St, id), id))
    /\ UNCHANGED <<cfg, pc, pipe>>

NextQueue ==
    \/ LoadTasks
    \/ CallMarkRunning
    \/ CallMarkCompleted
    \/ CallMarkFailed
    \/ CallMarkPausedAtBreakpoint
    \/ CallResumeFromBreakpoint

QueueSpec == InitQueue /\ [][NextQueue]_vars

\* ---------------------------------------------------- PipelineController
\* The locals of run() are the fields of pipe: cycle, cycles
\* (validationHistory.cycles) and, as cfg.tasks, currentTasks.  execs, merges,
\* issues, retryTasks and escalations count the calls of executePhase3,
\* mergeTaskBranches, createIssuesFromResults and generateRetryTasks and the
\* 'escalation' events; taskFailed tells whether an execution phase has
\* resolved with a failed task.
PipeTemplates ==
    {[gates |-> g, maxCycles |-> m, retries |-> 1] :
        g \in 0..MaxGates, m \in 1..MaxQaCycles}

\* a PipelineController constructed for a parsed template
InitPipe ==
    /\ cfg \in {[tasks |-> <<Plain(<<>>, 1)>>, maxConcurrent |-> 1], Chain2}
    /\ pc = "pipeline"
    /\ \E tpl \in PipeTemplates, generateArtifact \in BOOLEAN :
          pipe = [NoPipe EXCEPT !.template = tpl,
                                !.generateArtifact = generateArtifact]
    /\ store = NoStore
    /\ Fresh

\* new Orchestrator(orchestratorOptions)
NewOrchestrator ==
    [status |-> <<>>, attempts |-> <<>>, error |-> <<>>, result |-> <<>>,
     completed |-> {}, activeAgents |-> NoMap, timeouts |-> {},
     pollIntervals |-> {}, isRunning |-> FALSE, dispatches |-> EmptyBag,
     prompts |-> <<>>, stops |-> EmptyBag, requests |-> 0, nextAgent |-> 0,
     store |-> NoStore, hist |-> NoHist]

\* NoGates skipping no template
NoGates_Never(tpl) == FALSE

\* validationGates.length === 0
NoGates(tpl) == tpl.gates = 0

\* ValidationRunner.run: gateResults.every(r => r.passed)
AllPassed(gateResults) == \A k \in DOMAIN gateResults : gateResults[k].passed

\* The loop `for (const gateConfig of gates)` of ValidationRunner.run from
\* the k-th gate on: runGate answers outcome[k] for gate k, and the result is
\* pushed whatever it is
RECURSIVE RunGates(_, _, _, _)
RunGates(gates, outcome, k, gateResults) ==
    IF k > gates THEN gateResults
    ELSE RunGates(gates, outcome, k + 1,
                  Append(gateResults, [gate |-> k, passed |-> outcome[k]]))

\* ValidationRun leaving the loop at the first gate that fails
ValidationRun_ShortCircuit(gates, outcome, cycle) ==
    LET fails == {k \in 1..gates : ~outcome[k]}
        last == IF fails = {} THEN gates
                ELSE CHOOSE k \in fails : \A j \in fails : k <= j
        gateResults == [k \in 1..last |->
                           [gate |-> k, passed |-> outcome[k]]]
    IN [allPassed |-> AllPassed(gateResults), cycle |-> cycle,
        gateResults |-> gateResults]

\* ValidationRunner.run(gates, cycle, maxCycles)
ValidationRun(gates, outcome, cycle) ==
    LET gateResults == RunGates(gates, outcome, 1, <<>>)
    IN [allPassed |-> AllPassed(gateResults), cycle |-> cycle,
        gateResults |-> gateResults]

\* FailedGateResults without the filter
FailedGateResults_All(gateResults) ==
    {gateResults[k].gate : k \in DOMAIN gateResults}

\* validationResult.gateResults.filter(r => !r.passed)
FailedGateResults(gateResults) ==
    {gateResults[k].gate : k \in {j \in DOMAIN gateResults :
                                      ~gateResults[j].passed}}

\* LastCycle allowing one cycle more
LastCycle_OffByOne(cycle, maxCycles) == cycle + 1 > maxCycles

\* cycle + 1 >= maxCycles
LastCycle(cycle, maxCycles) == cycle + 1 >= maxCycles

\* GenerateRetryTasks pushing one task for each failed gate
GenerateRetryTasks_PerGate(failedGateResults, cycle) ==
    [k \in 1..Cardinality(failedGateResults) |->
        Task(<<>>, 100, pipe.template.retries, FALSE, FALSE)]

\* generateRetryTasks pushes one task; its prompt lists failedGateResults
GenerateRetryTasks(failedGateResults, cycle) ==
    <<Task(<<>>, 100, pipe.template.retries, FALSE, FALSE)>>

\* ExecutePhase5 generating the artifact of a successful run only
ExecutePhase5_OnSuccessOnly(p, success) ==
    IF success THEN [p EXCEPT !.artifacts = Append(@, success)] ELSE p

\* executePhase5: new ArtifactGenerator({..., success}).generate()
ExecutePhase5(p, success) == [p EXCEPT !.artifacts = Append(@, success)]

\* PipelineReturn counting failed tasks against success
PipelineReturn_TasksCount(p) ==
    LET success == /\ ~p.taskFailed
                   /\ \/ Len(p.cycles) = 0
                      \/ p.cycles[Len(p.cycles)].allPassed
        p1 == IF p.generateArtifact THEN ExecutePhase5(p, success) ELSE p
    IN [p1 EXCEPT !.pos = "done", !.success = success]

\* run() behind the loop
PipelineReturn(p) ==
    LET success == \/ Len(p.cycles) = 0
                   \/ p.cycles[Len(p.cycles)].allPassed
        p1 == IF p.generateArtifact THEN ExecutePhase5(p, success) ELSE p
    IN [p1 EXCEPT !.pos = "done", !.success = success]

\* run() up to the Promise of the first executePhase3; loadTasks and start
\* follow in the same run of code, before any event is handled
PipelineRun ==
    /\ pc = "pipeline"
    /\ pipe.pos = "idle"
    /\ pipe' = [pipe EXCEPT !.pos = "phase3", !.execs = @ + 1]
    /\ pc' = "constructed"
    /\ Apply(NewOrchestrator)
    /\ UNCHANGED cfg

\* The body of the loop of run() from the 'complete' event that resolves
\* executePhase3 to the next executePhase3 or to the return.  The branch
\* merges, the gates and the issue tracker are external commands: every
\* outcome of the gates is possible, and none of the awaits in between reads
\* or writes the state of an Orchestrator.
PipelineCycle ==
    /\ pipe.pos = "phase3"
    /\ hist.completeCount > 0
    /\ LET p0 == [pipe EXCEPT !.taskFailed =
                     @ \/ \E t \in DOMAIN hist.completeStatus :
                              hist.completeStatus[t] = "failed"]
           stay == UNCHANGED <<cfg, pc, status, attempts, error, result,
                               completed, activeAgents, timeouts,
                               pollIntervals, isRunning, dispatches, prompts,
                               stops, requests, nextAgent, store, hist>>
       IN IF NoGates(pipe.template)
          THEN pipe' = PipelineReturn(p0) /\ stay
          ELSE \E passed \in [1..pipe.template.gates -> BOOLEAN] :
                 LET validationResult ==
                         ValidationRun(pipe.template.gates, passed, pipe.cycle)
                     p1 == [p0 EXCEPT !.merges = @ + 1,
                                      !.cycles = Append(@, validationResult)]
                     failed == FailedGateResults(validationResult.gateResults)
                 IN IF validationResult.allPassed
                    THEN pipe' = PipelineReturn(p1) /\ stay
                    ELSE IF LastCycle(pipe.cycle, pipe.template.maxCycles)
                    THEN /\ pipe' = PipelineReturn(
                               [p1 EXCEPT !.escalations =
                                              Append(@, pipe.cycle)])
                         /\ stay
                    ELSE LET currentTasks ==
                                 GenerateRetryTasks(failed, pipe.cycle)
                             p2 == [p1 EXCEPT
                                 !.issues = Append(@, pipe.cycle),
                                 !.retryTasks =
                                     Append(@, [cycle |-> pipe.cycle,
                                                gates |-> failed,
                                                tasks |-> Len(currentTasks)]),
                                 !.cycle = @ + 1]
                         IN /\ cfg' = [cfg EXCEPT !.tasks = currentTasks]
                            /\ IF p2.cycle < pipe.template.maxCycles
                               THEN /\ pipe' = [p2 EXCEPT !.execs = @ + 1]
                                    /\ pc' = "constructed"
                                    /\ Apply(NewOrchestrator)
                               ELSE /\ pipe' = PipelineReturn(p2)
                                    /\ UNCHANGED <<pc, status, attempts,
                                           error, result, completed,
                                           activeAgents, timeouts,
                                           pollIntervals, isRunning,
                                           dispatches, prompts, stops,
                                           requests, nextAgent, store,
                                           hist>>

NextPipe ==
    \/ PipelineRun
    \/ LoadTasks
    \/ Start
    \/ CreateResponse
    \/ PollResponse
    \/ TimerExpire
    \/ PipelineCycle

PipeSpec == InitPipe /\ [][NextPipe]_vars

\* ------------------------------------ the pipeline with breakpoint tasks
\* a PipelineController constructed for a template with a breakpoint task
InitAbort ==
    /\ cfg \in {BreakThen, Break2}
    /\ pc = "pipeline"
    /\ \E tpl \in PipeTemplates, generateArtifact \in BOOLEAN :
          pipe = [NoPipe EXCEPT !.template = tpl,
                                !.generateArtifact = generateArtifact]
    /\ store = NoStore
    /\ Fresh

NextAbort ==
    \/ PipelineRun
    \/ LoadTasks
    \/ Start
    \/ CreateResponse
    \/ PollResponse
    \/ TimerExpire
    \/ BreakpointDecision
    \/ StopAgentResponse
    \/ PipelineCycle

\* run() awaits the Promise of executePhase3: once the Promise is resolved
\* the loop body runs
AbortSpec == InitAbort /\ [][NextAbort]_vars /\ WF_vars(PipelineCycle)

\* ------------------------------------------------------------ properties
TypeOK ==
    /\ pc \in {"cli", "exit", "parsed", "pipeline", "constructed", "loaded",
              "started"}
    /\ \A t \in DOMAIN status :
          status[t] \in {"pending", "ready", "running", "completed",
                         "failed", "paused_at_breakpoint"}
    /\ requests \in 0..MaxRequests

Terminal == {"completed", "failed"}

Dependents(t) == {d \in DOMAIN status : t \in Deps(d)}

\* C1: the number of entries of the active-agent map never exceeds
\* config.maxConcurrent.
C1_ActiveWithinLimit ==
    Cardinality(DOMAIN activeAgents) <= cfg.maxConcurrent

\* C2: every task whose status is ready has all ids of its dependsOn in the
\* completed set, also when it was made ready again by markFailed.
C2_ReadyImpliesDepsCompleted ==
    \A t \in DOMAIN status :
        status[t] = "ready" => Deps(t) \subseteq completed

\* a task with dependencies that markFailed has made ready again
C2_Witness ==
    \E t \in DOMAIN status :
        /\ status[t] = "ready"
        /\ Deps(t) # {}
        /\ hist.execFails[t] > 0

\* C3: a task that has reached completed or failed never changes status
\* again.
C3_TerminalIsAbsorbing ==
    [][\A t \in DOMAIN status :
          status[t] \in Terminal => status'[t] = status[t]]_vars

\* C4: while a task is paused at its breakpoint, its id is not in the
\* completed set and every task that depends on it is still pending.
C4_PausedBlocksDependents ==
    \A t \in DOMAIN status :
        status[t] = "paused_at_breakpoint" =>
            /\ t \notin completed
            /\ \A d \in Dependents(t) : status[d] = "pending"

\* C5: whenever allComplete is emitted every task is completed or failed; in
\* particular no task is paused at a breakpoint.
C5_AllCompleteOnlyWhenTerminal ==
    hist.completeCount > 0 =>
        \A t \in DOMAIN hist.completeStatus :
            hist.completeStatus[t] \in Terminal

\* allComplete was emitted in a run whose task set has a breakpoint task
C5_Witness ==
    /\ hist.completeCount > 0
    /\ \E t \in DOMAIN status : cfg.tasks[t].breakpoint

\* C6: a task with retries = n >= 1 whose every execution fails is started
\* exactly n times: it is ready again after each of the first n-1 failures
\* and terminally failed, with n starts, after the n-th.
C6_StartedExactlyRetriesTimes ==
    \A t \in DOMAIN status :
        (Budget(t) >= 1 /\ t \notin hist.finishedOk /\ ~cfg.tasks[t].complete) =>
            /\ attempts[t] <= Budget(t)
            /\ status[t] = "failed" => attempts[t] = Budget(t)
            /\ (hist.execFails[t] = attempts[t] /\ attempts[t] < Budget(t)) =>
                   status[t] \in {"pending", "ready"}

\* C7: with B depending on A and A.retries = 2, A is not terminally failed
\* after its first two executions have failed (it is started a third time),
\* and B leaves pending only after A has completed.
C7_ThirdAttemptAfterTwoFailures ==
    (cfg = Chain2 /\ pc = "started") =>
        /\ hist.execFails[1] = 2 => status[1] # "failed"
        /\ status[2] # "pending" => 1 \in completed

\* C8: a task whose job creation has failed as often as its retry budget
\* allows, without ever having been started, is terminally failed.
C8_CreateFailureUsesBudget ==
    \A t \in DOMAIN status :
        (/\ attempts[t] = 0
         /\ hist.createFails[t] > 0
         /\ hist.createFails[t] >= Budget(t)) =>
            status[t] = "failed"

IndependentCfg ==
    /\ NTasks > cfg.maxConcurrent
    /\ \A t \in TaskIds : Deps(t) = {} /\ ~cfg.tasks[t].complete

\* C9: with k independent tasks and maxConcurrent = m < k, no more than m
\* jobs are started before a job has reached a terminal status, and exactly
\* m once the dispatch of start() is through (its creation requests having
\* succeeded).
C9_OnlySlotsManyStartedAtOnce ==
    (pc = "started" /\ IndependentCfg /\ ~hist.anyTerminal) =>
        /\ nextAgent <= cfg.maxConcurrent
        /\ requests <= cfg.maxConcurrent
        /\ (dispatches = EmptyBag /\ \A t \in TaskIds : hist.createFails[t] = 0)
               => /\ nextAgent = cfg.maxConcurrent
                  /\ Cardinality({t \in TaskIds : status[t] = "running"})
                         = cfg.maxConcurrent

\* the last of the independent tasks has been started, after a job ended
C9_Witness ==
    /\ pc = "started"
    /\ IndependentCfg
    /\ nextAgent > cfg.maxConcurrent
    /\ hist.anyTerminal
    /\ attempts[NTasks] > 0

RECURSIVE DependsWithin(_, _, _, _)
\* b can be reached from a by between 1 and k dependsOn steps
DependsWithin(tasks, a, b, k) ==
    /\ k > 0
    /\ a \in DOMAIN tasks
    /\ \E d \in Range(tasks[a].dependsOn) :
          d = b \/ DependsWithin(tasks, d, b, k - 1)

Cyclic(tasks) ==
    \E t \in DOMAIN tasks : DependsWithin(tasks, t, t, Len(tasks))

UnknownDependency(tasks) ==
    \E t \in DOMAIN tasks : ~(Range(tasks[t].dependsOn) \subseteq DOMAIN tasks)

\* C10: for a task set with a dependency cycle or an unknown dependency id
\* the run command ends at parseTemplate: no Orchestrator is constructed, no
\* task is loaded and no job is requested.
C10_InvalidTaskSetRejected ==
    (Cyclic(cfg.tasks) \/ UnknownDependency(cfg.tasks)) =>
        /\ pc \in {"cli", "exit"}
        /\ status = <<>>
        /\ requests = 0

\* a template with a cycle and without unknown ids has been rejected
C10_Witness ==
    /\ pc = "exit"
    /\ Cyclic(cfg.tasks)
    /\ ~UnknownDependency(cfg.tasks)

\* the tasks that depend on c, directly or through other tasks
TransDependents(c) ==
    {d \in DOMAIN status : DependsWithin(cfg.tasks, d, c, NTasks)}

\* C11: once abort was chosen at the breakpoint of a task, the orchestrator
\* is not running and no task that depends on that task, directly or
\* transitively, is started.
C11_NoDependentStartsAfterAbort ==
    [][\A c \in hist.aborted :
          /\ ~isRunning'
          /\ \A d \in TransDependents(c) : attempts'[d] = attempts[d]]_vars

\* C12: after stop() was invoked no createAgent request is issued and no task
\* becomes running.
C12_NothingStartsAfterStop ==
    [][hist.stopped =>
          /\ requests' = requests
          /\ \A t \in DOMAIN status :
                status'[t] = "running" => status[t] = "running"]_vars

\* C13: when stop() has returned, no job is polled, no timeout timer is armed
\* and stopAgent was requested for every job that was in activeAgents when
\* stop() was called and has not ended by itself since.
C13_StopLeavesNothingBehind ==
    hist.stopReturned =>
        /\ ~hist.stopLeft.polling
        /\ ~hist.stopLeft.timers
        /\ ~hist.stopLeft.unasked

C15_SuccessIffLastCyclePassed ==
    pipe.pos = "done" =>
        (pipe.success <=>
            \/ pipe.cycles = <<>>
            \/ pipe.cycles[Len(pipe.cycles)].allPassed)

\* run() has returned success although a task of an execution phase failed
C15_Witness ==
    /\ pipe.pos = "done"
    /\ pipe.success
    /\ pipe.taskFailed
    /\ pipe.cycles # <<>>

\* C16: every failing validation cycle that is not the last allowed one is
\* followed by the generation of exactly one retry task, and the task set of
\* the next cycle is that task alone, without dependencies and breakpoint.
C16_OneRetryTaskReplacesTaskSet ==
    /\ Len(pipe.retryTasks) =
           Cardinality({i \in DOMAIN pipe.cycles :
                           /\ ~pipe.cycles[i].allPassed
                           /\ i < pipe.template.maxCycles})
    /\ \A i \in DOMAIN pipe.retryTasks : pipe.retryTasks[i].tasks = 1
    /\ pipe.cycle > 0 =>
           /\ Len(cfg.tasks) = 1
           /\ cfg.tasks[1].dependsOn = <<>>
           /\ ~cfg.tasks[1].breakpoint
           /\ pc \in {"loaded", "started"} => Len(status) = 1

\* the retry task made after a cycle in which two gates failed, on a
\* template of two tasks, has been started
C16_Witness ==
    /\ pipe.cycle > 0
    /\ pc = "started"
    /\ nextAgent > 0
    /\ \E i \in DOMAIN pipe.retryTasks :
          Cardinality(pipe.retryTasks[i].gates) = 2

\* C17: when run() returns after k failing cycles and a passing one, success
\* is true, k + 1 cycles are recorded and k retry tasks were generated, one
\* for each failing cycle, each made from the gates that failed in its cycle
\* and from no gate that passed.
C17_RetryReferencesFailedGatesOnly ==
    (/\ pipe.pos = "done"
     /\ pipe.cycles # <<>>
     /\ pipe.cycles[Len(pipe.cycles)].allPassed) =>
        /\ pipe.success
        /\ Len(pipe.cycles) <= pipe.template.maxCycles
        /\ Len(pipe.retryTasks) = Len(pipe.cycles) - 1
        /\ \A i \in DOMAIN pipe.retryTasks :
              /\ ~pipe.cycles[i].allPassed
              /\ pipe.retryTasks[i].tasks = 1
              /\ pipe.retryTasks[i].gates =
                     {g \in 1..pipe.template.gates :
                         \E k \in DOMAIN pipe.cycles[i].gateResults :
                             /\ pipe.cycles[i].gateResults[k].gate = g
                             /\ ~pipe.cycles[i].gateResults[k].passed}

\* cycle 0 failed one of two gates, cycle 1 passed both
C17_Witness ==
    /\ pipe.pos = "done"
    /\ pipe.success
    /\ Len(pipe.cycles) = 2
    /\ pipe.template.gates = 2
    /\ Cardinality(pipe.retryTasks[1].gates) = 1

\* C18: without validation gates run() performs one execution phase and
\* leaves the loop: nothing is merged, validated, filed or retried and no
\* cycle is recorded.
C18_NoGatesOneExecution ==
    pipe.template.gates = 0 =>
        /\ pipe.execs <= 1
        /\ pipe.merges = 0
        /\ pipe.cycles = <<>>
        /\ pipe.issues = <<>>
        /\ pipe.retryTasks = <<>>
        /\ pipe.escalations = <<>>
        /\ pipe.pos = "done" => (pipe.execs = 1 /\ pipe.success)

\* run() has returned for a template without gates that allows more cycles
C18_Witness ==
    /\ pipe.template.gates = 0
    /\ pipe.template.maxCycles >= 2
    /\ pipe.pos = "done"

\* C19: a task inserted with the complete flag is completed with attempts = 0
\* from its insertion on, is in no dispatch and has no job, and a task is
\* never left pending when all its dependencies, the flagged ones included,
\* are completed.
C19_CompleteFlagNeverRuns ==
    \A t \in DOMAIN status :
        cfg.tasks[t].complete =>
            /\ status[t] = "completed"
            /\ attempts[t] = 0
            /\ t \in completed
            /\ \A d \in BagToSet(dispatches) : t \notin Range(d)
            /\ \A a \in DOMAIN activeAgents : activeAgents[a] # t
            /\ \A d \in Dependents(t) :
                  status[d] = "pending" => ~(Deps(d) \subseteq completed)

\* a task whose only dependency is flagged complete has got a job
C19_Witness ==
    \E t \in DOMAIN status :
        /\ Deps(t) # {}
        /\ \A d \in Deps(t) : cfg.tasks[d].complete
        /\ attempts[t] > 0

\* C20: getReadyTasks() returns each ready task once and no other task, by
\* descending priority and, among equal priorities, in insertion order; no
\* dispatch takes a task while it leaves a ready task of strictly higher
\* priority behind.
C20_ReadyOrderAndFrontDispatch ==
    LET r == GetReadyTasks(St)
    IN /\ Range(r) = {t \in DOMAIN status : status[t] = "ready"}
       /\ \A i, j \in DOMAIN r :
             i < j =>
                /\ r[i] # r[j]
                /\ cfg.tasks[r[i]].priority >= cfg.tasks[r[j]].priority
                /\ cfg.tasks[r[i]].priority = cfg.tasks[r[j]].priority
                       => r[i] < r[j]
       /\ ~hist.prioritySkipped

\* the dispatch of start() had two slots for three ready tasks: it took the
\* task of higher priority and the first of the two others
C20_Witness ==
    /\ cfg = Indep3
    /\ ~hist.anyTerminal
    /\ status = <<"running", "running", "ready">>

\* C21: a task paused at its breakpoint with an open prompt has no entry in
\* activeAgents, so it takes no slot; meanwhile a terminal status polled for
\* another active job is handled (the job leaves activeAgents) and a dispatch
\* with a free slot takes the ready tasks.
C21_PauseTakesNoSlot ==
    \A t \in DOMAIN status :
        (status[t] = "paused_at_breakpoint" /\ prompts[t] > 0) =>
            /\ \A a \in DOMAIN activeAgents : activeAgents[a] # t
            /\ \A a \in DOMAIN activeAgents, st \in FinishedStatuses :
                  a \notin DOMAIN PollAnswer(St, a, st).activeAgents
            /\ (/\ isRunning
                /\ Cardinality(DOMAIN activeAgents) < cfg.maxConcurrent
                /\ \E u \in DOMAIN status : status[u] = "ready")
                   => TrySpawnAgents(St).requests = requests + 1

\* C22: when the timeout timer of a job in activeAgents expires, a stop
\* request is sent for the job, the job leaves activeAgents, its polling and
\* its timer are cleared, and its task gets the error 'Timeout exceeded' and
\* is ready again if its retry budget allows, failed otherwise; no timer is
\* armed for a job that has left activeAgents.
C22_TimeoutFailsTheJob ==
    /\ timeouts \subseteq DOMAIN activeAgents
    /\ \A a \in timeouts :
          LET t == activeAgents[a]
              r == HandleTimeout(St, a)
          IN /\ r.hist.timerStopSent
             /\ a \notin DOMAIN r.activeAgents
             /\ a \notin r.pollIntervals
             /\ a \notin r.timeouts
             /\ r.error[t] = "Timeout exceeded"
             /\ r.status[t] =
                    IF attempts[t] < cfg.tasks[t].retries THEN "ready"
                    ELSE "failed"
             /\ r.attempts = attempts

\* a task has failed for good by a timeout, another one was made ready again
C22_Witness ==
    /\ hist.timerStopSent
    /\ \E t \in DOMAIN status :
          status[t] = "failed" /\ error[t] = "Timeout exceeded"
    /\ \E t \in DOMAIN status :
          /\ error[t] = "Timeout exceeded"
          /\ attempts[t] > 0
          /\ attempts[t] < cfg.tasks[t].retries

\* C24: for a job in activeAgents, FINISHED completes its task (pauses it if
\* the task has a breakpoint), FAILED fails it with 'Agent failed', STOPPED
\* and EXPIRED fail it with 'Agent was stopped'; any other polled status
\* changes nothing, and the job stays polled.
C24_PolledStatusMapping ==
    \A a \in DOMAIN activeAgents, st \in PollStatuses :
        LET t == activeAgents[a]
            r == PollAnswer(St, a, st)
            afterFailure ==
                IF attempts[t] < cfg.tasks[t].retries THEN "ready"
                ELSE "failed"
        IN /\ st = "FINISHED" =>
                 /\ r.status[t] = IF cfg.tasks[t].breakpoint
                                  THEN "paused_at_breakpoint"
                                  ELSE "completed"
                 /\ r.error = error
           /\ st = "FAILED" =>
                 r.status[t] = afterFailure /\ r.error[t] = "Agent failed"
           /\ st \in {"STOPPED", "EXPIRED"} =>
                 /\ r.status[t] = afterFailure
                 /\ r.error[t] = "Agent was stopped"
           /\ st \in FinishedStatuses =>
                 a \notin DOMAIN r.activeAgents /\ a \notin r.pollIntervals
           /\ st \notin FinishedStatuses => r = St

\* a job was reported EXPIRED and its task failed as a cancelled one, a
\* breakpoint task was paused by FINISHED
C24_Witness ==
    /\ \E t \in DOMAIN status :
          status[t] = "failed" /\ error[t] = "Agent was stopped"
    /\ \E t \in DOMAIN status : status[t] = "paused_at_breakpoint"

\* C26: resumeFromBreakpoint on a paused task gives the statuses, the
\* completed set, the dispatches of the tasks made ready and the all-complete
\* signal that markCompleted gives in the same state; on a task that is not
\* paused it changes nothing.
C26_ResumeEqualsDeferredCompletion ==
    \A t \in DOMAIN status :
        LET a == ResumeFromBreakpoint(St, t)
            b == MarkCompleted(St, t, TRUE)
        IN IF status[t] = "paused_at_breakpoint"
           THEN /\ a.status = b.status
                /\ a.completed = b.completed
                /\ a.attempts = b.attempts
                /\ a.result = b.result
                /\ a.dispatches = b.dispatches
                /\ a.requests = b.requests
                /\ a.isRunning = b.isRunning
                /\ a.hist.completeCount = b.hist.completeCount
                /\ a.hist.completeStatus = b.hist.completeStatus
           ELSE a = St

\* a breakpoint task was resumed and a task depending on it was started
C26_Witness ==
    \E t \in DOMAIN status :
        /\ cfg.tasks[t].breakpoint
        /\ status[t] = "completed"
        /\ \E d \in Dependents(t) : attempts[d] > 0

\* C29: once a task is failed for good, no task that depends on it, directly
\* or transitively, is started.
C29_NoDependentOfFailedStarts ==
    [][\A t \in DOMAIN status :
          status[t] = "failed" =>
              \A d \in TransDependents(t) : attempts'[d] = attempts[d]]_vars

\* C30: stop(), called from outside or by the abort at a breakpoint, and its
\* continuations behind each stopAgent leave every task's status, attempts
\* and error and the completed set as they are; the orchestrator is not
\* running afterwards.
C30_StopIsNoFailure ==
    LET same(r) == /\ r.status = status
                   /\ r.attempts = attempts
                   /\ r.error = error
                   /\ r.result = result
                   /\ r.completed = completed
                   /\ r.hist.execFails = hist.execFails
    IN /\ same(StopOrchestrator(St)) /\ ~StopOrchestrator(St).isRunning
       /\ \A t \in DOMAIN prompts :
             prompts[t] > 0 =>
                 same(StopOrchestrator([St EXCEPT !.prompts[t] = @ - 1,
                                                  !.hist.aborted = @ \cup {t}]))
       /\ \A call \in BagToSet(stops) :
             same(StopLoop([St EXCEPT !.stops = @ (-) SetToBag({call})],
                           call, call.cur))

\* abort was chosen at a breakpoint while another task was running, and the
\* task is still running when stop() has returned
C30_Witness ==
    /\ hist.aborted # {}
    /\ hist.stopReturned
    /\ \E t \in DOMAIN status : status[t] = "running"

\* C27: ValidationRunner.run runs every configured gate once and in the
\* configured order, also behind a gate that has failed: for every outcome of
\* the gates, and in every cycle that run() has recorded, gateResults holds
\* one result for each gate in that order, and allPassed is true exactly when
\* every gate passed.
C27_AllGatesRunInOrder ==
    LET gates == pipe.template.gates
        good(v, n) ==
            /\ Len(v.gateResults) = n
            /\ \A k \in 1..n : v.gateResults[k].gate = k
            /\ v.allPassed <=> \A k \in 1..n : v.gateResults[k].passed
    IN /\ \A outcome \in [1..gates -> BOOLEAN] :
             LET v == ValidationRun(gates, outcome, pipe.cycle)
             IN /\ good(v, gates)
                /\ \A k \in 1..gates : v.gateResults[k].passed = outcome[k]
       /\ \A i \in DOMAIN pipe.cycles : good(pipe.cycles[i], gates)

\* a recorded cycle in which the first gate failed and the second gate was
\* run and passed
C27_Witness ==
    \E i \in DOMAIN pipe.cycles :
        /\ Len(pipe.cycles[i].gateResults) >= 2
        /\ ~pipe.cycles[i].gateResults[1].passed
        /\ pipe.cycles[i].gateResults[2].passed

\* C28: with the artifact flag set the generator is invoked once, behind the
\* cycle loop, whatever the outcome, and is given the success value that
\* run() returns; without the flag, and before run() has left the loop, it is
\* not invoked.
C28_ArtifactOnceForEveryOutcome ==
    IF pipe.pos = "done" /\ pipe.generateArtifact
    THEN pipe.artifacts = <<pipe.success>>
    ELSE pipe.artifacts = <<>>

\* run() has returned after an escalation and the generator was invoked
C28_Witness ==
    /\ pipe.pos = "done"
    /\ pipe.generateArtifact
    /\ pipe.escalations # <<>>
    /\ ~pipe.success
    /\ Len(pipe.artifacts) = 1

\* C25: markRunning, markCompleted, markFailed, markPausedAtBreakpoint and
\* resumeFromBreakpoint called with an id that is not in the task set return
\* with the queue as it was: no task, not the completed set and nothing that
\* a listener of an event would have changed is different.
C25_UnknownIdIsNoOp ==
    /\ MarkRunning(St, UnknownId) = St
    /\ \A checkComplete \in BOOLEAN :
          MarkCompleted(St, UnknownId, checkComplete) = St
    /\ MarkFailed(St, UnknownId, "exec") = St
    /\ MarkPausedAtBreakpoint(St, UnknownId) = St
    /\ ResumeFromBreakpoint(St, UnknownId) = St
    /\ UnknownId \notin completed

\* a method was called with the unknown id on a queue that holds a running
\* task and a completed one
C25_Witness ==
    /\ hist.unknownId
    /\ \E t \in DOMAIN status : status[t] = "running"
    /\ completed # {}

\* C23: once the run has signalled all-complete and the clear of the state
\* store has taken effect, no save started by the listener of a task event
\* takes effect: the snapshot stays deleted, in whatever order the
\* operations of the store finish.
C23_SnapshotStaysDeleted ==
    ~hist.lateSave

\* C33: no two entries of the active-agent map refer to the same task, and
\* every task an entry refers to is running.
C33_OneJobPerRunningTask ==
    /\ \A a, b \in DOMAIN activeAgents :
          activeAgents[a] = activeAgents[b] => a = b
    /\ \A a \in DOMAIN activeAgents : status[activeAgents[a]] = "running"

\* C35: the completed set holds exactly the ids of the tasks whose status is
\* completed.
C35_CompletedSetIsCompletedStatus ==
    completed = {t \in DOMAIN status : status[t] = "completed"}

RECURSIVE SumTo(_, _)
SumTo(f, n) == IF n = 0 THEN 0 ELSE f[n] + SumTo(f, n - 1)

\* C36: the attempts of the tasks add up to the number of jobs created, and
\* no task has more attempts than max(1, retries).
C36_AttemptsWithinBudget ==
    /\ SumTo(attempts, Len(attempts)) = nextAgent
    /\ \A t \in DOMAIN attempts :
          attempts[t] <= IF Budget(t) > 1 THEN Budget(t) ELSE 1

\* C37: 'complete' is emitted at most once, and when it is emitted the
\* active-agent map is empty, no timer is armed and no job is polled.
C37_CompleteOnceAndIdle ==
    /\ hist.completeCount <= 1
    /\ ~hist.completeBusy
    /\ OnAllComplete(St).timeouts = {}
    /\ OnAllComplete(St).pollIntervals = {}

\* C38: once the tasks are loaded, no task is pending while all ids of its
\* dependsOn are in the completed set; a task without dependencies is never
\* pending.
C38_NoPendingWithDepsCompleted ==
    \A t \in DOMAIN status :
        status[t] = "pending" =>
            Deps(t) # {} /\ ~(Deps(t) \subseteq completed)

\* a task listed before the complete-flagged task it depends on has left
\* pending at the load, and a task with two dependencies has been started
\* after the jobs of both have finished
C38_Witness ==
    \/ /\ cfg = Seeded
       /\ pc = "loaded"
       /\ status[1] = "ready"
    \/ \E t \in DOMAIN status :
          /\ Cardinality(Deps(t)) > 1
          /\ attempts[t] > 0
          /\ Deps(t) \subseteq hist.finishedOk

\* C39: every armed timer belongs to a job of the active-agent map; while the
\* orchestrator is running every job of the map has its timer; clearing the
\* timer of a job that has none changes nothing.
C39_TimersFollowActiveJobs ==
    /\ timeouts \subseteq DOMAIN activeAgents
    /\ isRunning => DOMAIN activeAgents \subseteq timeouts
    /\ \A a \in (0..(nextAgent + 1)) \ timeouts : ClearTimeout(St, a) = St

\* two jobs are active with their timers while the orchestrator is running,
\* and a job created earlier has left the map
C39_Witness ==
    /\ isRunning
    /\ Cardinality(DOMAIN activeAgents) = 2
    /\ timeouts = DOMAIN activeAgents
    /\ nextAgent > 2

\* C34: once an outcome has been handled for a job, every later terminal
\* poll answer and every later timer callback for that job leaves the tasks
\* and the orchestrator as they are.
C34_OneOutcomePerJob ==
    \A a \in hist.processed :
        /\ a \notin DOMAIN activeAgents
        /\ \A st \in FinishedStatuses : PollAnswer(St, a, st) = St
        /\ HandleTimeout(St, a) = St

\* a late event has arrived for a handled job while another job is active
C34_Witness ==
    /\ hist.lateEvent
    /\ activeAgents # NoMap
    /\ isRunning

\* C40: for a task set whose dependsOn ids are all ids of its tasks,
\* validateDependencies throws exactly when some task can be reached from
\* itself along dependsOn, and the run command goes on exactly when it does
\* not throw.
C40_RejectedIffCyclic ==
    ~UnknownDependency(cfg.tasks) =>
        /\ ValidateDependenciesThrows(cfg.tasks) <=> Cyclic(cfg.tasks)
        /\ pc = "exit" => Cyclic(cfg.tasks)
        /\ pc \notin {"cli", "exit"} => ~Cyclic(cfg.tasks)

\* a template in which a task depends on two tasks, one of which depends on
\* the other, has been accepted
C40_Witness ==
    /\ pc \notin {"cli", "exit"}
    /\ ~UnknownDependency(cfg.tasks)
    /\ \E t \in DOMAIN cfg.tasks :
          \E d1, d2 \in Range(cfg.tasks[t].dependsOn) :
              /\ d1 # d2
              /\ d1 \in Range(cfg.tasks[d2].dependsOn)

\* C31: on every valid task set, when every job is created, every job
\* reports a terminal status and every breakpoint prompt is answered
\* 'continue', the run eventually emits 'complete'.
C31_CompleteEventuallyEmitted == <>(hist.completeCount > 0)

\* the requests of such a run stay below the bound of the model
LiveWithinBound == requests < MaxRequests

\* the Orchestrator of the execution phase has emitted 'complete', or its
\* stop() has returned
OrchestratorTerminated == hist.completeCount > 0 \/ hist.stopReturned

\* C32: run() leaves every execution phase whose Orchestrator has
\* terminated, by completing its tasks or by stop() after an abort at a
\* breakpoint: it returns or goes on to the next execution phase (and there
\* are at most maxCycles of them).
C32_RunLeavesTerminatedPhase ==
    \A n \in 1..MaxQaCycles :
        (pipe.pos = "phase3" /\ pipe.execs = n /\ OrchestratorTerminated)
            ~> (pipe.pos = "done" \/ pipe.execs > n)

====
